---- MODULE Spec2Model ----
(***************************************************************************)
(* The training control loop of the text classifier: BertTrainer.train     *)
(* (src/classify/trainer.py, whose Python source is embedded in the page   *)
(* at line 1827 and rendered on lines 1908-1941) driven by the             *)
(* configuration that main() of src/classify/train.py builds.              *)
(*                                                                         *)
(* One run of train() is a state machine over the trainer's attributes     *)
(* (timestep, epoch, patience), the locals of train() (best_val_loss, the  *)
(* batch index), the model/optimizer state and the checkpoint file         *)
(* model.pt.  Validation losses are the evaluator's output and are drawn   *)
(* from a small set of finite values; the model weights are identified by  *)
(* the number of optimizer steps applied to them.                          *)
(*                                                                         *)
(* Spec is one run of train(); SpecCrash adds kills, failing saves and     *)
(* relaunches of the program; SpecLive is Spec with the loop never         *)
(* suspended; SpecMain is main() from its argument object up to the call   *)
(* of train(): _ensure_defaults, the split-integrity check and the label   *)
(* maps of src/classify/utils.py.                                          *)
(***************************************************************************)
EXTENDS Integers, Sequences, FiniteSets, TLC

(* ------------------------------ bounds --------------------------------- *)
MaxEpochs == 4
MaxBatches == 2
MaxPatience == 2
MaxWindow == 2
MaxLoss == 2
MaxInterval == 1
MaxRows == 2
MaxLabel == 1

(* the configurations main() can hand to the trainer *)
EpochValues == 1 .. MaxEpochs
BatchCounts == 1 .. MaxBatches
PatienceValues == -1 .. MaxPatience
WindowValues == 0 .. MaxWindow
(* --eval_steps / --save_steps: absent (default None) or every N steps *)
CadenceValues == {{}} \cup {{k} : k \in 1 .. MaxInterval}
(* --resume_from: absent (default None) or the path of the checkpoint file *)
ResumeArgs == {"none", "model.pt"}
(* finite validation losses the evaluator can return *)
Losses == 0 .. MaxLoss

(* the texts of the CSV files' "text" column *)
Texts == {"a", "b"}
(* a split: the "text" column of one CSV file, row by row *)
TextColumns == UNION {[1 .. n -> Texts] : n \in 0 .. MaxRows}
(* string labels of a "label" column, in Python's sort order *)
LabelNames == << "neg", "pos" >>
(* the "label" column of a split with n rows: strings, or integers *)
LabelColumns(n) ==
    {[dtype |-> "string", values |-> v] : v \in [1 .. n -> {LabelNames[i] : i \in 1 .. Len(LabelNames)}]}
    \cup {[dtype |-> "int", values |-> v] : v \in [1 .. n -> 0 .. MaxLabel]}
(* the accumulation attributes an argument object may carry *)
AccumulationArgs == {"gradient_accumulation_steps", "grad_accum_steps"}
(* argument objects handed to main(): a dict or Namespace that carries any *)
(* of the accumulation attributes, each with a window of 1 or more         *)
Namespaces == UNION {[keys -> 1 .. MaxWindow] : keys \in SUBSET AccumulationArgs}

(* np.inf: larger than every finite validation loss *)
Inf == MaxLoss + 1

(* model.pt has not been written yet *)
NoCheckpoint == [file |-> "absent"]

(* model.pt as a torch.save that did not finish leaves it: opened for      *)
(* writing, so the previous content is gone, and not completely written    *)
PartialCheckpoint == [file |-> "partial"]

VARIABLES
    max_epochs,                   \* args.max_epochs / self.max_epochs
    num_train_batch,              \* len(self.train_dataloader)
    args_patience,                \* args.patience, the configured patience
    gradient_accumulation_steps,  \* args.gradient_accumulation_steps
    eval_steps,                   \* args.eval_steps: {} for None, {n} for n
    save_steps,                   \* args.save_steps: {} for None, {n} for n
    resume_arg,                   \* args.resume_from as given on the command line
    resume_from,                  \* targs.resume_from after main()'s existence check
    error,                        \* the exception propagating out of train(), if any
    pc,                           \* position of train(): running or returned
    epoch,                        \* self.epoch (epoch_index)
    batch_index,                  \* batch_index of the enumerate() loop
    timestep,                     \* self.timestep
    patience,                     \* self.patience
    best_val_loss,                \* local best_val_loss of train()
    model_state,                  \* the weights: optimizer steps applied so far
    checkpoint,                   \* content of output_path/model.pt
    eval_log,                     \* the per-epoch log lines: timestep and val loss
    main_pc,                      \* position of main()
    ns,                           \* the argument object args: attribute -> value
    splits,                       \* the "text" columns of train_df, val_df, test_df
    train_labels,                 \* the "label" column of train_df
    overlap,                      \* the result dict of validate_dataset_splits
    label2id,                     \* build_label_maps: label -> id
    id2label                      \* build_label_maps: id -> label

vars == << max_epochs, num_train_batch, args_patience, gradient_accumulation_steps,
           eval_steps, save_steps, resume_arg, resume_from, error,
           pc, epoch, batch_index, timestep, patience, best_val_loss,
           model_state, checkpoint, eval_log,
           main_pc, ns, splits, train_labels, overlap, label2id, id2label >>

(* what main() holds when it calls trainer.train() *)
startup == << main_pc, ns, splits, train_labels, overlap, label2id, id2label >>

(* what one launch of main() fixes for the whole run *)
config == << max_epochs, num_train_batch, args_patience, gradient_accumulation_steps,
             eval_steps, save_steps, resume_arg, resume_from >>

(* ----------------------- pieces of BertTrainer ------------------------- *)

(* train(): if val_loss < best_val_loss *)
Improved_TiesImprove(val_loss, best) == val_loss <= best
Improved_NeverFirst(val_loss, best) == val_loss < best /\ best <= MaxLoss
Improved(val_loss, best) == val_loss < best

(* train(): if self.patience == 0: break *)
EarlyTermination_Late(p) == p < 0
EarlyTermination(p) == p = 0

(* save(): checkpoint = {"model": ..., "optimizer": ...}; torch.save(...) *)
SavedCheckpoint_Unflushed(model, optimizer) == PartialCheckpoint
SavedCheckpoint(model, optimizer) == [model |-> model, optimizer |-> optimizer]

(* train() has no return statement: its caller receives None ({} here,    *)
(* {v} standing for a returned value v)                                    *)
TrainReturn == {}

(* train(): logger.info("Epoch %d | Timestep %d | ... | Val Loss %f | ...") *)
LogLine(t, val_loss) == [timestep |-> t, val_loss |-> val_loss]

(* train(): self.timestep += 1, once per batch *)
NextTimestep(t) == t + 1

(* main(): if resume_from and not os.path.exists(resume_from):             *)
(*             resume_from = None                                          *)
ResolveResume_KeepMissing(arg, file) == arg
ResolveResume(arg, file) ==
    IF arg # "none" /\ file = NoCheckpoint THEN "none" ELSE arg

(* train(): the batch body runs inside no try/except, so an exception it   *)
(* raises leaves train() (and main(), which has none around train either)  *)
PcAfterRaise_Swallowed == "running"
PcAfterRaise == "failed"

(* train(): the batch loop "for ... in enumerate(self.train_dataloader, 1)" *)
(* is over once every batch of the dataloader has been processed; the      *)
(* evaluation follows the loop                                             *)
EpochFinished_InsideLoop(b, n) == b >= 1
EpochFinished(b, n) == b = n

(* -------------------------- pieces of main() --------------------------- *)

(* _ensure_defaults: the defaults dict (None is {}, 1.0 is 1) *)
Defaults ==
    [dropout_rate |-> {}, freeze_layers |-> {}, gpus |-> {}, resume_from |-> {},
     grad_accum_steps |-> 1, num_workers |-> 2, grad_clip |-> 1, patience |-> 2,
     fp16 |-> FALSE, gradient_accumulation_steps |-> 1,
     eval_steps |-> {}, save_steps |-> {}]

(* _ensure_defaults(ns): every default the object lacks is set, then       *)
(* gradient_accumulation_steps is copied to grad_accum_steps if the object *)
(* still has no grad_accum_steps                                           *)
ensure_defaults(a) ==
    LET filled == [k \in DOMAIN a \cup DOMAIN Defaults |->
                       IF k \in DOMAIN a THEN a[k] ELSE Defaults[k]]
    IN  IF /\ "gradient_accumulation_steps" \in DOMAIN filled
           /\ "grad_accum_steps" \notin DOMAIN filled
        THEN [k \in DOMAIN filled \cup {"grad_accum_steps"} |->
                  IF k = "grad_accum_steps"
                  THEN filled["gradient_accumulation_steps"]
                  ELSE filled[k]]
        ELSE filled

(* validate_dataset_splits: all_texts is the three "text" columns in a row *)
AllTexts(sp) == sp.train \o sp.val \o sp.test

(* validate_dataset_splits: total_unique = len(set(all_texts)),            *)
(* has_overlap = total_unique != total_samples,                            *)
(* overlap_count = total_samples - total_unique                            *)
validate_dataset_splits(sp) ==
    LET all_texts == AllTexts(sp)
        total_samples == Len(all_texts)
        total_unique == Cardinality({all_texts[i] : i \in 1 .. Len(all_texts)})
    IN  [has_overlap |-> total_unique # total_samples,
         overlap_count |-> total_samples - total_unique]

(* train_df["label"].unique() *)
UniqueLabels(col) == {col.values[i] : i \in DOMAIN col.values}

(* the index of a string label in sorted(labels): the labels before it *)
SortedIndex(lbl, labels) ==
    LET pos(x) == CHOOSE i \in 1 .. Len(LabelNames) : LabelNames[i] = x
    IN  Cardinality({m \in labels : pos(m) < pos(lbl)})

(* build_label_maps, label2id: strings are numbered in sorted order,       *)
(* {lbl: i for i, lbl in enumerate(labels)}; numbers keep their own value, *)
(* {str(lbl): int(lbl) for lbl in labels}                                  *)
build_label_maps(col) ==
    IF col.dtype = "string"
    THEN [lbl \in UniqueLabels(col) |-> SortedIndex(lbl, UniqueLabels(col))]
    ELSE [key \in {ToString(lbl) : lbl \in UniqueLabels(col)} |->
              CHOOSE lbl \in UniqueLabels(col) : ToString(lbl) = key]

(* build_label_maps, id2label: {v: k for k, v in label2id.items()} *)
InverseMap(l2i) ==
    [v \in {l2i[k] : k \in DOMAIN l2i} |-> CHOOSE k \in DOMAIN l2i : l2i[k] = v]

(* apply_label_map: string labels go through label2id, numbers are only    *)
(* cast with astype(int)                                                   *)
apply_label_map(col, l2i) ==
    IF col.dtype = "string"
    THEN [dtype |-> "int", values |-> [i \in DOMAIN col.values |-> l2i[col.values[i]]]]
    ELSE [dtype |-> "int", values |-> col.values]

(* main(): classes_ordered = [id2label[i] for i in range(num_labels)] can  *)
(* be built: every i below num_labels = len(id2label) is a key             *)
ClassesDefined(i2l) == \A i \in 0 .. Cardinality(DOMAIN i2l) - 1 : i \in DOMAIN i2l

(* a data set that passes main()'s checks: one text per split, one class *)
PlainSplits == [train |-> << "a" >>, val |-> << "b" >>, test |-> << >>]
PlainLabels == [dtype |-> "string", values |-> << "neg" >>]

(* ------------------------------- Init ---------------------------------- *)
(* main() has passed its checks on a plain data set and calls train():     *)
(* BertTrainer.__init__ followed by the first lines of train()             *)
Init ==
    /\ max_epochs \in EpochValues
    /\ num_train_batch \in BatchCounts
    /\ args_patience \in PatienceValues
    /\ gradient_accumulation_steps \in WindowValues
    /\ eval_steps \in CadenceValues
    /\ save_steps \in CadenceValues
    /\ resume_arg \in ResumeArgs
    /\ resume_from = ResolveResume(resume_arg, NoCheckpoint)
    /\ error = "none"
    /\ pc = "running"
    /\ epoch = 0
    /\ batch_index = 0
    /\ timestep = 0
    /\ patience = args_patience
    /\ best_val_loss = Inf
    /\ model_state = 0
    /\ checkpoint = NoCheckpoint
    /\ eval_log = << >>
    /\ main_pc = "train"
    /\ ns = [Defaults EXCEPT !.gradient_accumulation_steps = gradient_accumulation_steps,
                             !.patience = args_patience,
                             !.eval_steps = eval_steps,
                             !.save_steps = save_steps]
    /\ splits = PlainSplits
    /\ overlap = validate_dataset_splits(PlainSplits)
    /\ label2id = build_label_maps(PlainLabels)
    /\ id2label = InverseMap(label2id)
    /\ train_labels = apply_label_map(PlainLabels, label2id)

(* ------------------------------ actions -------------------------------- *)

(* One iteration of the batch loop: classify (zero_grad, forward),         *)
(* timestep += 1, loss, backward, optimizer.step().                        *)
TrainBatch ==
    /\ pc = "running"
    /\ ~EpochFinished(batch_index, num_train_batch)
    /\ batch_index' = batch_index + 1
    /\ timestep' = NextTimestep(timestep)
    /\ model_state' = model_state + 1
    /\ UNCHANGED << startup, config, error, pc, epoch, patience, best_val_loss, checkpoint, eval_log >>

(* The end of an epoch after the evaluation: break on patience == 0,       *)
(* otherwise the next epoch_index of range(max_epochs), or the return.     *)
EndOfEpoch_ExtraEpoch(p) ==
    IF EarlyTermination(p)
    THEN /\ pc' = "early_stop"
         /\ UNCHANGED << epoch, batch_index >>
    ELSE IF epoch < max_epochs
         THEN /\ pc' = "running"
              /\ epoch' = epoch + 1
              /\ batch_index' = 0
         ELSE /\ pc' = "epochs_done"
              /\ UNCHANGED << epoch, batch_index >>
EndOfEpoch(p) ==
    IF EarlyTermination(p)
    THEN /\ pc' = "early_stop"
         /\ UNCHANGED << epoch, batch_index >>
    ELSE IF epoch + 1 < max_epochs
         THEN /\ pc' = "running"
              /\ epoch' = epoch + 1
              /\ batch_index' = 0
         ELSE /\ pc' = "epochs_done"
              /\ UNCHANGED << epoch, batch_index >>

(* Validation improved: best_val_loss := val_loss, test evaluation,        *)
(* predictions, self.save().                                               *)
EvalImproved(val_loss) ==
    /\ pc = "running"
    /\ EpochFinished(batch_index, num_train_batch)
    /\ Improved(val_loss, best_val_loss)
    /\ eval_log' = Append(eval_log, LogLine(timestep, val_loss))
    /\ best_val_loss' = val_loss
    /\ checkpoint' = SavedCheckpoint(model_state, model_state)
    /\ patience' = patience
    /\ EndOfEpoch(patience')
    /\ UNCHANGED << startup, config, error, timestep, model_state >>

(* Validation did not improve: self.patience -= 1.                         *)
EvalNotImproved(val_loss) ==
    /\ pc = "running"
    /\ EpochFinished(batch_index, num_train_batch)
    /\ ~Improved(val_loss, best_val_loss)
    /\ eval_log' = Append(eval_log, LogLine(timestep, val_loss))
    /\ patience' = patience - 1
    /\ EndOfEpoch(patience')
    /\ UNCHANGED << startup, config, error, timestep, model_state, best_val_loss, checkpoint >>

Evaluate == \E val_loss \in Losses : EvalImproved(val_loss) \/ EvalNotImproved(val_loss)

(* A training batch whose forward pass, loss, backward pass or optimizer    *)
(* call raises.  classify() raises before self.timestep += 1, the loss,    *)
(* backward and optimizer calls after it; the batch is not completed.      *)
BackendError ==
    /\ pc = "running"
    /\ ~EpochFinished(batch_index, num_train_batch)
    /\ timestep' \in {timestep, NextTimestep(timestep)}
    /\ error' = "BackendError"
    /\ pc' = PcAfterRaise
    /\ UNCHANGED << startup, config, epoch, batch_index, patience, best_val_loss, model_state,
                    checkpoint, eval_log >>

Next == TrainBatch \/ Evaluate \/ BackendError

Spec == Init /\ [][Next]_vars

(* ------------------- interruption and relaunch ------------------------- *)

(* The process is killed between two steps of the loop. *)
Kill ==
    /\ pc = "running"
    /\ pc' = "killed"
    /\ UNCHANGED << startup, config, error, epoch, batch_index, timestep, patience, best_val_loss,
                    model_state, checkpoint, eval_log >>

(* The process is killed inside self.save() of an improving evaluation:    *)
(* torch.save(checkpoint, filename) writes straight into model.pt.         *)
KillDuringSave(val_loss) ==
    /\ pc = "running"
    /\ EpochFinished(batch_index, num_train_batch)
    /\ Improved(val_loss, best_val_loss)
    /\ eval_log' = Append(eval_log, LogLine(timestep, val_loss))
    /\ best_val_loss' = val_loss
    /\ checkpoint' = PartialCheckpoint
    /\ pc' = "killed"
    /\ UNCHANGED << startup, config, error, epoch, batch_index, timestep, patience, model_state >>

(* torch.save raises inside self.save() (an I/O failure): the exception    *)
(* leaves train(); model.pt is untouched or left partly written.           *)
SaveError(val_loss) ==
    /\ pc = "running"
    /\ EpochFinished(batch_index, num_train_batch)
    /\ Improved(val_loss, best_val_loss)
    /\ eval_log' = Append(eval_log, LogLine(timestep, val_loss))
    /\ best_val_loss' = val_loss
    /\ checkpoint' \in {checkpoint, PartialCheckpoint}
    /\ error' = "IOError"
    /\ pc' = PcAfterRaise
    /\ UNCHANGED << startup, config, epoch, batch_index, timestep, patience, model_state >>

InterruptedSave == \E val_loss \in Losses : KillDuringSave(val_loss) \/ SaveError(val_loss)

(* main() is launched again after an interrupted run, with or without      *)
(* --resume_from model.pt: the existence check, build_model (pretrained    *)
(* weights), BertTrainer.__init__ (timestep = 0, epoch = 0, patience) and  *)
(* the first lines of train().  Nothing reads the checkpoint file.         *)
Relaunch ==
    /\ pc \in {"killed", "failed"}
    /\ resume_arg' \in ResumeArgs
    /\ resume_from' = ResolveResume(resume_arg', checkpoint)
    /\ error' = "none"
    /\ pc' = "running"
    /\ epoch' = 0
    /\ batch_index' = 0
    /\ timestep' = 0
    /\ patience' = args_patience
    /\ best_val_loss' = Inf
    /\ model_state' = 0
    /\ eval_log' = << >>
    /\ UNCHANGED << startup, max_epochs, num_train_batch, args_patience, gradient_accumulation_steps,
                    eval_steps, save_steps, checkpoint >>

NextCrash == Next \/ Kill \/ InterruptedSave \/ Relaunch

(* the launches studied under interruption: no step cadence configured *)
InitCrash == Init /\ eval_steps = {} /\ save_steps = {}

SpecCrash == InitCrash /\ [][NextCrash]_vars

(* ------------------- main() before trainer.train() --------------------- *)

(* the trainer's variables while main() has not built the trainer yet *)
trainer == << max_epochs, num_train_batch, args_patience, gradient_accumulation_steps,
              eval_steps, save_steps, resume_arg, resume_from,
              pc, epoch, batch_index, timestep, patience, best_val_loss,
              model_state, checkpoint, eval_log >>

(* main() is entered with an argument object; nothing is loaded yet, and   *)
(* one epoch of one batch is what the trainer will be given                *)
InitMain ==
    /\ main_pc = "args"
    /\ ns \in Namespaces
    /\ splits = [train |-> << >>, val |-> << >>, test |-> << >>]
    /\ train_labels = [dtype |-> "int", values |-> << >>]
    /\ overlap = [has_overlap |-> FALSE, overlap_count |-> 0]
    /\ label2id = << >>
    /\ id2label = << >>
    /\ max_epochs = 1
    /\ num_train_batch = 1
    /\ args_patience = Defaults.patience
    /\ gradient_accumulation_steps = Defaults.gradient_accumulation_steps
    /\ eval_steps = {}
    /\ save_steps = {}
    /\ resume_arg = "none"
    /\ resume_from = "none"
    /\ error = "none"
    /\ pc = "not_started"
    /\ epoch = 0
    /\ batch_index = 0
    /\ timestep = 0
    /\ patience = args_patience
    /\ best_val_loss = Inf
    /\ model_state = 0
    /\ checkpoint = NoCheckpoint
    /\ eval_log = << >>

(* main(): args = _ensure_defaults(_coerce_args(args)) *)
ParseArgs ==
    /\ main_pc = "args"
    /\ ns' = ensure_defaults(ns)
    /\ main_pc' = "load"
    /\ UNCHANGED << trainer, error, splits, train_labels, overlap, label2id, id2label >>

(* main(): the three read_csv_required calls; the training file has rows *)
LoadData ==
    /\ main_pc = "load"
    /\ \E tr \in TextColumns \ {<< >>}, va \in TextColumns, te \in TextColumns :
           splits' = [train |-> tr, val |-> va, test |-> te]
    /\ train_labels' \in LabelColumns(Len(splits'.train))
    /\ main_pc' = "validate"
    /\ UNCHANGED << trainer, error, ns, overlap, label2id, id2label >>

(* main(): the split-integrity check, RuntimeError on has_overlap *)
SplitIntegrityCheck ==
    /\ main_pc = "validate"
    /\ overlap' = validate_dataset_splits(splits)
    /\ IF overlap'.has_overlap
       THEN main_pc' = "raised" /\ error' = "RuntimeError"
       ELSE main_pc' = "labels" /\ error' = error
    /\ UNCHANGED << trainer, ns, splits, train_labels, label2id, id2label >>

(* main(): build_label_maps on train_df, apply_label_map *)
LabelMaps ==
    /\ main_pc = "labels"
    /\ label2id' = build_label_maps(train_labels)
    /\ id2label' = InverseMap(label2id')
    /\ train_labels' = apply_label_map(train_labels, label2id')
    /\ main_pc' = "classes"
    /\ UNCHANGED << trainer, error, ns, splits, overlap >>

(* main(): classes_ordered = [id2label[i] for i in range(num_labels)],     *)
(* KeyError on an i that is no key                                         *)
ClassesOrdered ==
    /\ main_pc = "classes"
    /\ IF ClassesDefined(id2label)
       THEN main_pc' = "build" /\ error' = error
       ELSE main_pc' = "raised" /\ error' = "KeyError"
    /\ UNCHANGED << trainer, ns, splits, train_labels, overlap, label2id, id2label >>

(* main(): TrainArgs from the argument object, BertTrainer(...),           *)
(* trainer.train(...)                                                      *)
StartTraining ==
    /\ main_pc = "build"
    /\ main_pc' = "train"
    /\ gradient_accumulation_steps' = ns["gradient_accumulation_steps"]
    /\ args_patience' = ns["patience"]
    /\ patience' = ns["patience"]
    /\ eval_steps' = ns["eval_steps"]
    /\ save_steps' = ns["save_steps"]
    /\ pc' = "running"
    /\ UNCHANGED << max_epochs, num_train_batch, resume_arg, resume_from, error,
                    epoch, batch_index, timestep, best_val_loss, model_state,
                    checkpoint, eval_log,
                    ns, splits, train_labels, overlap, label2id, id2label >>

NextMain ==
    \/ ParseArgs
    \/ LoadData
    \/ SplitIntegrityCheck
    \/ LabelMaps
    \/ ClassesOrdered
    \/ StartTraining

SpecMain == InitMain /\ [][NextMain]_vars

(* ---------------------- derived loop quantities ------------------------ *)

(* The number of training batches train() has processed: epoch_index full  *)
(* passes over the dataloader plus batch_index batches of the current one. *)
BatchesProcessed == epoch * num_train_batch + batch_index

(* Micro-batches whose gradients no optimizer step has applied yet: every  *)
(* batch is followed by its own optimizer.step().                          *)
AccumulationCount == BatchesProcessed - model_state

(* train() has returned *)
Returned == pc \in {"early_stop", "epochs_done"}

(* =============================== claims ================================ *)

(* C1: from a fresh loop state, after n processed batches the global step  *)
(* equals n div accumulation_window_size and the accumulation count equals *)
(* n mod accumulation_window_size (window 4, 10 batches: step 2, count 2), *)
(* for every window >= 1.                                                  *)
C1_StepPerWindow ==
    gradient_accumulation_steps >= 1 =>
        /\ timestep = BatchesProcessed \div gradient_accumulation_steps
        /\ AccumulationCount = BatchesProcessed % gradient_accumulation_steps

(* C2: between batches 0 <= accumulation_count < accumulation_window_size, *)
(* and the global step never decreases and changes only by +1, at a batch  *)
(* that completes an accumulation window (windows >= 1).                   *)
C2_StepOnlyAtWindow ==
    /\ [](gradient_accumulation_steps >= 1 =>
            (0 <= AccumulationCount /\ AccumulationCount < gradient_accumulation_steps))
    /\ [][ gradient_accumulation_steps >= 1 =>
             /\ timestep' >= timestep
             /\ timestep' # timestep =>
                   /\ timestep' = timestep + 1
                   /\ BatchesProcessed' % gradient_accumulation_steps = 0 ]_vars

(* --------------------- early stopping (C3 - C7) ------------------------ *)

(* this step is an evaluation: it appended a line to the per-epoch log *)
Evaluated == Len(eval_log') = Len(eval_log) + 1

(* the validation loss of the evaluation this step made *)
NewLoss == eval_log'[Len(eval_log')].val_loss

(* self.save() ran in this step: model.pt now holds the current weights *)
SavedNow == checkpoint' = SavedCheckpoint(model_state, model_state)

(* C3: ties are not improvements.  An evaluation whose selection value     *)
(* equals the current best leaves the best value unchanged, decrements     *)
(* patience by 1 (no reset) and saves no best checkpoint.                  *)
C3_TieIsNotImprovement ==
    [][ (Evaluated /\ NewLoss = best_val_loss) =>
            /\ best_val_loss' = best_val_loss
            /\ patience' = patience - 1
            /\ checkpoint' = checkpoint ]_vars

(* C3 witness: the second evaluation tied with the first one; patience was *)
(* decremented and model.pt still holds the weights of the first epoch.    *)
C3_Witness ==
    /\ Len(eval_log) = 2
    /\ eval_log[1].val_loss = eval_log[2].val_loss
    /\ best_val_loss = eval_log[1].val_loss
    /\ patience = args_patience - 1
    /\ checkpoint # NoCheckpoint
    /\ checkpoint.model = eval_log[1].timestep

(* C4: every improving evaluation sets the best value to the new one,      *)
(* resets patience to the configured patience and saves a best checkpoint  *)
(* (stated for a configured patience >= 1).                                *)
C4_ImprovementResetsPatience ==
    [][ (args_patience >= 1 /\ Evaluated /\ Improved(NewLoss, best_val_loss)) =>
            /\ best_val_loss' = NewLoss
            /\ patience' = args_patience
            /\ SavedNow ]_vars

(* C5: every non-improving evaluation decrements patience by 1; when the   *)
(* result is <= 0 the loop stops, and once stopped early no further batch, *)
(* epoch or evaluation runs.                                               *)
C5_ExhaustedStops ==
    [][ /\ (Evaluated /\ ~Improved(NewLoss, best_val_loss)) =>
              /\ patience' = patience - 1
              /\ patience' <= 0 => pc' # "running"
        /\ pc = "early_stop" => UNCHANGED vars ]_vars

(* the validation losses evaluated so far, in order *)
LossAt(i) == eval_log[i].val_loss
NumEvals == Len(eval_log)

StrictlyIncreasing == \A i \in 1 .. NumEvals - 1 : LossAt(i) < LossAt(i + 1)
StrictlyDecreasing == \A i \in 1 .. NumEvals - 1 : LossAt(i) > LossAt(i + 1)
AllEqual == \A i \in 1 .. NumEvals - 1 : LossAt(i) = LossAt(i + 1)

(* a constant sequence exhausts exactly at evaluation patience + 1, each   *)
(* evaluation after the first having cost one unit of patience             *)
ConstantExhaustsAfterPatience ==
    (NumEvals >= 1 /\ AllEqual) =>
        /\ patience = args_patience - (NumEvals - 1)
        /\ pc = "early_stop" <=> NumEvals = args_patience + 1

RECURSIVE BestAfter(_)
BestAfter(n) ==
    IF n = 0 THEN Inf
    ELSE IF Improved(LossAt(n), BestAfter(n - 1)) THEN LossAt(n) ELSE BestAfter(n - 1)

(* evaluation i was an improvement over everything before it *)
WasImprovement(i) == Improved(LossAt(i), BestAfter(i - 1))

(* consecutive non-improving evaluations since the most recent improvement *)
RECURSIVE NonImprovingRun(_)
NonImprovingRun(n) ==
    IF n = 0 \/ WasImprovement(n) THEN 0 ELSE 1 + NonImprovingRun(n - 1)

(* C7: with per-epoch evaluation and patience p >= 1 the loop stops right  *)
(* after the first epoch at which p consecutive non-improving evaluations  *)
(* have occurred since the most recent improvement, and never earlier.     *)
C7_StopsAfterConsecutiveNonImprovements ==
    args_patience >= 1 =>
        /\ pc = "early_stop" => NonImprovingRun(NumEvals) = args_patience
        /\ pc = "running" => NonImprovingRun(NumEvals) < args_patience

(* ------------------- best checkpoint (C8 - C10) ------------------------ *)

(* C8: when train() returns, by early stopping or at the end of the epoch  *)
(* budget, the weights the trainer holds are those of the best checkpoint, *)
(* not those left by the last processed batch (stated for a configured     *)
(* patience >= 1).                                                         *)
C8_ReturnsBestState ==
    (args_patience >= 1 /\ Returned /\ checkpoint # NoCheckpoint) =>
        model_state = checkpoint.model

(* the weights evaluation i ran on: the optimizer steps applied before it *)
StateAtEval(i) == eval_log[i].timestep

(* the earliest evaluation with the lowest / the highest value so far *)
EarliestMin ==
    CHOOSE i \in 1 .. NumEvals :
        /\ \A j \in 1 .. NumEvals : LossAt(i) <= LossAt(j)
        /\ \A j \in 1 .. i - 1 : LossAt(j) > LossAt(i)
EarliestMax ==
    CHOOSE i \in 1 .. NumEvals :
        /\ \A j \in 1 .. NumEvals : LossAt(i) >= LossAt(j)
        /\ \A j \in 1 .. i - 1 : LossAt(j) < LossAt(i)

LoopStateFields ==
    {"global_step", "current_epoch", "best_metric", "patience_remaining",
     "is_best", "timestamp"}

(* C10: every checkpoint written carries the scalar loop state, so that    *)
(* loading it gives back the global step, epoch, best value and patience   *)
(* that were current when it was saved.                                    *)
C10_CheckpointCarriesLoopState ==
    [][ checkpoint' # checkpoint =>
            /\ LoopStateFields \subseteq DOMAIN checkpoint'
            /\ checkpoint'.global_step = timestep
            /\ checkpoint'.current_epoch = epoch
            /\ checkpoint'.best_metric = best_val_loss'
            /\ checkpoint'.patience_remaining = patience ]_vars

(* ------------------ resume and durability (C11 - C14) ------------------ *)

(* a configuration the loop is meant to run with *)
ValidConfig == args_patience >= 1 /\ gradient_accumulation_steps >= 1

(* model.pt holds a completely written checkpoint *)
IsCheckpoint(f) == f # NoCheckpoint /\ f # PartialCheckpoint

(* this step launches a run *)
Launches == pc # "running" /\ pc' = "running"

(* this step launches a run whose resume path is a complete checkpoint;    *)
(* its weights are those after checkpoint.model optimizer steps: the       *)
(* global step g at which it was taken                                     *)
Resumes == Launches /\ resume_from' = "model.pt" /\ IsCheckpoint(checkpoint)

(* C11: a run restarted with a checkpoint taken at global step g as resume *)
(* path continues the interrupted run from g: the global step does not     *)
(* restart from 0, the weights are those of the checkpoint and the best    *)
(* value so far is kept, so no step counted in g is repeated.              *)
C11_ResumeContinuesFromCheckpoint ==
    [][ (ValidConfig /\ Resumes) =>
            /\ timestep' = checkpoint.model
            /\ model_state' = checkpoint.model
            /\ best_val_loss' # Inf ]_vars

(* ceil(num_batches / accumulation_window_size) *)
StepsPerEpoch ==
    (num_train_batch + gradient_accumulation_steps - 1) \div gradient_accumulation_steps

(* C12: the checkpoint has no epoch field, and the resumed current_epoch   *)
(* (counted from 1) is g // steps_per_epoch + 1; the loop re-enters that   *)
(* epoch at step offset g mod steps_per_epoch, not at offset 0.            *)
C12_ResumeEpochAndOffset ==
    [][ (ValidConfig /\ Resumes) =>
            /\ epoch' + 1 = (checkpoint.model \div StepsPerEpoch) + 1
            /\ batch_index' \div gradient_accumulation_steps =
                   checkpoint.model % StepsPerEpoch ]_vars

(* the state of a run that starts over: epoch 1 (index 0), global step 0,  *)
(* the initial best value and the full configured patience, no error       *)
FreshRun ==
    /\ pc = "running"
    /\ error = "none"
    /\ epoch = 0
    /\ batch_index = 0
    /\ timestep = 0
    /\ best_val_loss = Inf
    /\ patience = args_patience

(* a run that has just been launched: nothing trained or evaluated yet *)
AtLaunch ==
    /\ pc = "running"
    /\ epoch = 0
    /\ batch_index = 0
    /\ NumEvals = 0

(* the resume target given at launch is missing or not a whole checkpoint *)
BadResumeTarget == resume_arg # "none" /\ ~IsCheckpoint(checkpoint)

(* a launch with a bad resume target starts over, and a missing target is  *)
(* dropped: the trainer is configured as if no resume path had been given  *)
StartsOverOnBadTarget ==
    BadResumeTarget =>
        /\ FreshRun
        /\ checkpoint = NoCheckpoint => resume_from = "none"

(* C13: a resume target that is missing or corrupt never aborts the run:   *)
(* the first launch and every relaunch with such a target start from a     *)
(* fresh loop state, and training proceeds as without a resume path.       *)
C13_BadResumeTargetStartsOver ==
    [][ /\ AtLaunch => StartsOverOnBadTarget
        /\ Launches => StartsOverOnBadTarget' ]_vars

(* C13 witness: launched with --resume_from model.pt that does not exist;  *)
(* the path was dropped and the run trained and evaluated an epoch.        *)
C13_Witness ==
    /\ resume_arg = "model.pt"
    /\ resume_from = "none"
    /\ error = "none"
    /\ NumEvals >= 1
    /\ timestep >= 1

(* C14: a kill during save leaves the previously published checkpoint as   *)
(* it was, and no partially written checkpoint is ever left for a load.    *)
C14_SaveIsAtomic ==
    [][ (ValidConfig /\ pc = "running" /\ pc' = "killed" /\ IsCheckpoint(checkpoint)) =>
            (checkpoint' = checkpoint /\ checkpoint' # PartialCheckpoint) ]_vars

(* ------------------ cadence and configuration (C15 - C18) -------------- *)

(* the interval of a configured cadence option *)
Interval(opt) == CHOOSE k \in opt : TRUE

(* the global step t is an instant the cadence option opt asks for *)
Due(opt, t) == opt # {} /\ t >= 1 /\ t % Interval(opt) = 0

(* this step trains the next batch *)
TrainsOn == model_state' = model_state + 1 /\ error' = error

(* the validation set was evaluated at global step t *)
EvaluatedAt(t) == \E i \in 1 .. NumEvals : LossAt(i) # Inf /\ eval_log[i].timestep = t

(* C15: with eval_steps (save_steps) configured, every global step that is *)
(* a multiple of the interval is evaluated (has its state saved) at that   *)
(* step, before the loop trains on.                                        *)
C15_CadenceIsHonoured ==
    [][ (ValidConfig /\ TrainsOn) =>
            /\ Due(eval_steps, timestep) => EvaluatedAt(timestep)
            /\ Due(save_steps, timestep) =>
                   (IsCheckpoint(checkpoint) /\ checkpoint.model = model_state) ]_vars

(* the cadence options are both absent *)
NoCadence == eval_steps = {} /\ save_steps = {}

(* the epochs whose last batch has been trained and evaluated *)
CompletedEpochs == IF Returned THEN epoch + 1 ELSE epoch

(* C16: with eval_steps and save_steps absent nothing is evaluated or      *)
(* saved inside an epoch: each completed epoch has exactly one evaluation, *)
(* taken after its last batch, and every save happens at such an instant.  *)
C16_OneEvaluationPerEpoch ==
    /\ [](NoCadence =>
            /\ error = "none" => NumEvals = CompletedEpochs
            /\ \A i \in 1 .. NumEvals : StateAtEval(i) = i * num_train_batch
            /\ IsCheckpoint(checkpoint) =>
                   \E i \in 1 .. NumEvals : checkpoint.model = StateAtEval(i))
    /\ [][ (NoCadence /\ (Evaluated \/ checkpoint' # checkpoint)) =>
               (batch_index = num_train_batch /\ model_state' = model_state) ]_vars

(* C16 witness: two epochs of two batches each were completed without a    *)
(* cadence option: two evaluations, at global steps 2 and 4, and a save.   *)
C16_Witness ==
    /\ NoCadence
    /\ num_train_batch = 2
    /\ NumEvals = 2
    /\ StateAtEval(1) = 2
    /\ StateAtEval(2) = 4
    /\ IsCheckpoint(checkpoint)

(* C17: an accumulation window of 0 or less is rejected at startup: the    *)
(* run trains no batch and takes no optimizer step.                        *)
C17_WindowRejected ==
    gradient_accumulation_steps <= 0 => (BatchesProcessed = 0 /\ timestep = 0)

(* C18: a patience of 0 or less is rejected at startup: the run trains no  *)
(* batch and evaluates nothing.                                            *)
C18_PatienceRejected ==
    args_patience <= 0 => (BatchesProcessed = 0 /\ NumEvals = 0)

(* ------------------ failures and terminal states (C19 - C20) ----------- *)

(* C19: an error raised by a batch's forward/backward or optimizer call    *)
(* leaves train(): the run is failed at once, no further batch is trained, *)
(* and neither the raising step nor anything after it changes the best     *)
(* value, the remaining patience or the saved checkpoint.                  *)
C19_BackendErrorPropagates ==
    /\ [](error # "none" => pc = "failed")
    /\ [][ (error' # "none") =>
               /\ pc' = "failed"
               /\ model_state' = model_state
               /\ batch_index' = batch_index
               /\ eval_log' = eval_log
               /\ best_val_loss' = best_val_loss
               /\ patience' = patience
               /\ checkpoint' = checkpoint ]_vars

(* C19 witness: the backend raised in a later epoch, after an evaluation   *)
(* had set the best value and saved a checkpoint.                          *)
C19_Witness ==
    /\ error = "BackendError"
    /\ pc = "failed"
    /\ NumEvals >= 1
    /\ best_val_loss # Inf
    /\ IsCheckpoint(checkpoint)

(* the run is over and its caller has control again *)
Finished == pc \in {"early_stop", "epochs_done", "failed"}

C21_NoReturnDuringSave ==
    [][ (pc = "running" /\ pc' \in {"early_stop", "epochs_done"}) =>
            /\ IsCheckpoint(checkpoint')
            /\ checkpoint' # checkpoint =>
                   (checkpoint'.model = model_state /\ checkpoint'.optimizer = model_state) ]_vars

(* C21 witness: a validly configured run saved, later ran out of patience  *)
(* and returned with the saved checkpoint whole.                           *)
C21_Witness ==
    /\ pc = "early_stop"
    /\ args_patience >= 1
    /\ NumEvals >= 2
    /\ IsCheckpoint(checkpoint)
    /\ checkpoint.model < timestep

(* C22: a stop signal ends the run in order: a signal that arrives while   *)
(* an evaluation's checkpoint is being written lets the write finish, so   *)
(* the run exits with that evaluation's checkpoint completely written.     *)
C22_StopSignalFlushesSave ==
    [][ (ValidConfig /\ pc = "running" /\ pc' = "killed" /\ Evaluated) =>
            (IsCheckpoint(checkpoint') /\ checkpoint'.model = model_state) ]_vars

(* C23: the optimizer steps only on a batch that completes an accumulation *)
(* window, once, so the optimizer steps taken equal the global step in     *)
(* every state; an evaluation logged for a step sees that step applied.    *)
C23_StepOnlyOnBoundary ==
    /\ [](ValidConfig =>
            /\ error = "none" => model_state = timestep
            /\ \A i \in 1 .. NumEvals : StateAtEval(i) <= model_state)
    /\ [][ (ValidConfig /\ model_state' # model_state) =>
               /\ model_state' = model_state + 1
               /\ BatchesProcessed' % gradient_accumulation_steps = 0 ]_vars

HighestObserved == CHOOSE v \in Losses :
    /\ \E i \in 1 .. NumEvals : LossAt(i) = v
    /\ \A i \in 1 .. NumEvals : LossAt(i) <= v

(* C25: what train() hands back to main() is the highest validation value  *)
(* of the run, after an early stop as after the last epoch.                *)
C25_TrainReturnsBest ==
    (Returned /\ args_patience >= 1) => TrainReturn = {HighestObserved}

(* ------------------ arguments and data (C26 - C28) --------------------- *)

(* C26: _ensure_defaults overwrites no attribute the object came with, and *)
(* an object that came with gradient_accumulation_steps = k and without    *)
(* grad_accum_steps leaves it with grad_accum_steps = k.                   *)
C26_LegacyNameMirrored ==
    [][ (main_pc = "args" /\ main_pc' = "load") =>
            /\ \A k \in DOMAIN ns : ns'[k] = ns[k]
            /\ ("gradient_accumulation_steps" \in DOMAIN ns
                    /\ "grad_accum_steps" \notin DOMAIN ns) =>
                   ns'["grad_accum_steps"] = ns["gradient_accumulation_steps"] ]_vars

(* the texts that occur in more than one of the train/val/test splits *)
SharedTexts ==
    {t \in Texts :
        Cardinality({name \in {"train", "val", "test"} :
                        \E i \in DOMAIN splits[name] : splits[name][i] = t}) >= 2}

(* main() is past its split-integrity check *)
SplitsChecked == main_pc \in {"labels", "classes", "build", "train", "raised"}

(* C27: the split check reports has_overlap exactly when a text occurs in  *)
(* more than one split, overlap_count is the number of such texts, and     *)
(* main() has raised, and never reaches train(), when has_overlap is set.  *)
C27_OverlapMeansSharedText ==
    SplitsChecked =>
        /\ overlap.has_overlap <=> SharedTexts # {}
        /\ overlap.overlap_count = Cardinality(SharedTexts)
        /\ overlap.has_overlap => main_pc = "raised"

(* main() is past build_label_maps and apply_label_map *)
MapsBuilt ==
    \/ main_pc \in {"classes", "build", "train"}
    \/ main_pc = "raised" /\ error = "KeyError"

(* C28: for K distinct training labels label2id and id2label are inverse   *)
(* to each other, the keys of id2label are exactly 0 .. K-1, so every      *)
(* id2label[i] main() looks up exists, and every training label is sent to *)
(* an id in 0 .. K-1.                                                      *)
C28_LabelMapsAreBijections ==
    MapsBuilt =>
        LET K == Cardinality(DOMAIN label2id)
        IN  /\ \A k \in DOMAIN label2id : id2label[label2id[k]] = k
            /\ \A v \in DOMAIN id2label : label2id[id2label[v]] = v
            /\ DOMAIN id2label = 0 .. K - 1
            /\ error # "KeyError"
            /\ \A i \in DOMAIN train_labels.values : train_labels.values[i] \in 0 .. K - 1

(* ------------------ termination and first evaluation (C29 - C30) ------- *)

(* train() is a sequential loop that is not suspended: while a batch or an *)
(* evaluation is due, one is eventually executed                           *)
SpecLive == Init /\ [][Next]_vars /\ WF_vars(Next)

(* the run stays within its epoch budget *)
WithinBudget ==
    /\ epoch < max_epochs
    /\ BatchesProcessed <= max_epochs * num_train_batch
    /\ model_state <= max_epochs * num_train_batch
    /\ NumEvals <= max_epochs
    /\ NumEvals <= epoch + 1

(* C29: for every epoch budget E and every finite number of batches per    *)
(* epoch the run ends: unless the backend fails, train() returns by early  *)
(* stop or after the last epoch, having used at most E epochs,             *)
(* E * num_batches training batches and E evaluations.                     *)
C29_RunTerminates ==
    /\ []WithinBudget
    /\ <>(Returned \/ error # "none")

(* C29 witness: a run used its whole budget of several epochs of several   *)
(* batches and returned.                                                   *)
C29_Witness ==
    /\ pc = "epochs_done"
    /\ max_epochs >= 2
    /\ num_train_batch >= 2
    /\ NumEvals = max_epochs
    /\ BatchesProcessed = max_epochs * num_train_batch

(* C30: the first evaluation of a run is an improvement whatever finite    *)
(* value it measures: after it a checkpoint of that evaluation exists, the *)
(* best value is its value and the patience is still the configured one;   *)
(* from then on a checkpoint exists, in particular when train() returns.   *)
C30_FirstEvaluationImproves ==
    /\ NumEvals >= 1 => (IsCheckpoint(checkpoint) /\ best_val_loss # Inf)
    /\ (NumEvals = 1 /\ error = "none") =>
           /\ best_val_loss = LossAt(1)
           /\ checkpoint.model = StateAtEval(1)
           /\ patience = args_patience

(* C30 witness: the first evaluation measured the worst finite value and   *)
(* the run then returned with its checkpoint.                              *)
C30_Witness ==
    /\ Returned
    /\ NumEvals >= 1
    /\ LossAt(1) = MaxLoss
    /\ IsCheckpoint(checkpoint)
    /\ checkpoint.model = StateAtEval(1)

====
